---- MODULE Spec2Model ----
(***************************************************************************)
(* A model of corestore (src/index.js): a registry of hypercore handles    *)
(* plus the set of replication streams the handles are multiplexed onto.  *)
(*                                                                         *)
(* JavaScript strings are sequences of one-character strings, so that      *)
(* slice() and join() are SubSeq and concatenation.  Buffers are natural   *)
(* numbers below 2^16 (two bytes); their hex text has four characters.     *)
(***************************************************************************)
EXTENDS Naturals, Integers, Sequences, FiniteSets, TLC

\* ---------------------------------------------------------------- bounds
\* number of get()/default() calls that create a handle, replicate() calls
\* that return a stream and close() calls, together
MaxObjects == 3
\* number of ready callbacks one (core, stream) pair may have queued
MaxPending == 2
\* number of distinct public keys
NumKeys == 2

Keys == 1..NumKeys
Names == {<<"a">>}
NoCore == 0
NoKey == 0

\* ------------------------------------------------------ values and text
None == [t |-> "none"]
Buf(n) == [t |-> "buf", v |-> n]
Str(s) == [t |-> "str", v |-> s]
Truthy(x) == x.t # "none"

HexDigits == <<"0","1","2","3","4","5","6","7","8","9","a","b","c","d","e","f">>
DigitVal(c) == (CHOOSE i \in 1..16 : HexDigits[i] = c) - 1

\* datEncoding.encode: a two-byte buffer to its four hex characters
encode(n) ==
  << HexDigits[((n \div 4096) % 16) + 1], HexDigits[((n \div 256) % 16) + 1],
     HexDigits[((n \div 16) % 16) + 1],   HexDigits[(n % 16) + 1] >>

\* datEncoding.decode: hex text back to the buffer
decode(s) ==
  DigitVal(s[1]) * 4096 + DigitVal(s[2]) * 256 + DigitVal(s[3]) * 16 + DigitVal(s[4])

\* crypto.discoveryKey: a one-way derivation, two bytes wide
discoveryKey(n) == (n * 4369 + 2570) % 65536

DefaultStr == <<"d","e","f","a","u","l","t">>

\* ------------------------------------------------------------- requests
\* The option object of get() / default().
Opts(d, nm, k, dk, kp, sk) ==
  [default |-> d, name |-> nm, key |-> k, discoveryKey |-> dk, keyPair |-> kp,
   secretKey |-> sk]

EmptyOpts == Opts(FALSE, <<>>, None, None, NoKey, FALSE)

GetOpts ==
  {EmptyOpts}
  \cup {[EmptyOpts EXCEPT !.name = n] : n \in Names}
  \cup {[EmptyOpts EXCEPT !.key = Buf(k)] : k \in Keys}
  \cup {[EmptyOpts EXCEPT !.key = Str(encode(k))] : k \in Keys}
  \cup {[EmptyOpts EXCEPT !.discoveryKey = Buf(discoveryKey(k))] : k \in Keys}
  \cup {[EmptyOpts EXCEPT !.discoveryKey = Str(encode(discoveryKey(k)))] : k \in Keys}


DefaultOpts ==
  {EmptyOpts}
  \cup {[EmptyOpts EXCEPT !.name = n] : n \in Names}
  \cup {[EmptyOpts EXCEPT !.key = Buf(k)] : k \in Keys}

\* Corestore._optsToIndex; fresh is the public key crypto.keyPair() draws.
\* idx is a string (default marker, name) or a buffer; key is NoKey when the
\* request names none.
_optsToIndex(coreOpts, fresh) ==
  IF coreOpts.default /\ ~Truthy(coreOpts.key) /\ ~coreOpts.secretKey
  THEN [idx |-> Str(DefaultStr), key |-> NoKey, generated |-> FALSE]
  ELSE IF coreOpts.name # <<>> /\ ~Truthy(coreOpts.key) /\ ~coreOpts.secretKey
  THEN [idx |-> Str(coreOpts.name), key |-> NoKey, generated |-> FALSE]
  ELSE
    LET given == IF Truthy(coreOpts.key) THEN coreOpts.key ELSE coreOpts.discoveryKey
    IN IF ~Truthy(given)
       THEN LET publicKey == IF coreOpts.keyPair # NoKey THEN coreOpts.keyPair ELSE fresh
            IN [idx |-> Buf(discoveryKey(publicKey)), key |-> publicKey,
                generated |-> coreOpts.keyPair = NoKey]
       ELSE LET bin == IF given.t = "buf" THEN given.v ELSE decode(given.v)
            IN [idx |-> Buf(IF Truthy(coreOpts.key) THEN discoveryKey(bin) ELSE bin),
                key |-> IF Truthy(coreOpts.key)
                          THEN (IF coreOpts.key.t = "buf" THEN coreOpts.key.v
                                ELSE decode(coreOpts.key.v))
                          ELSE NoKey,
                generated |-> FALSE]

\* get(): idxString
IdxString(idx) == IF idx.t = "buf" THEN encode(idx.v) ELSE idx.v

\* get(): storageRoot
StorageRoot(idxString, coreOpts) ==
  IF idxString # DefaultStr /\ coreOpts.name = <<>>
  THEN SubSeq(idxString, 1, 2) \o <<"/">> \o SubSeq(idxString, 3, 4) \o <<"/">> \o idxString
  ELSE idxString

\* ---------------------------------------------------------------- state
Signals == {"finish", "end", "close"}
\* the last step returned to its caller
NoThrow == "none"

VARIABLES
  hs,                  \* the core handles hypercore() has returned, by identity
  storage,             \* storage root -> public key of the log on disk
  cores,               \* this.cores: index string -> handle
  replicationStreams,  \* this.replicationStreams: the active streams, in order
  defaultCore,         \* this.defaultCore
  ss,                  \* the streams replicate() has returned, by identity
  pend,                \* (core, stream) -> queued _replicateCore ready callbacks
  libPend,             \* (core, stream) pairs whose defaultCore.replicate() awaits readiness
  instructed,          \* (core, stream) -> number of core.replicate({stream}) calls
  closes,              \* the close() calls: remaining, the number of calls of cb, the
                       \* argument of the first (the failing core, NoCore for null)
                       \* and the number of handles that existed at that call
  closeCbs,            \* (close call, core) -> core.close(onclose) calls not yet answered
  threw,               \* the call that ended the last step in a throw to its caller
  limit                \* the number of calls a run may make (it never changes)

vars == <<hs, storage, cores, replicationStreams, defaultCore, ss, pend, libPend,
          instructed, closes, closeCbs, threw, limit>>

\* identities: a run of one more call than MaxObjects fits
CoreIds == 1..(MaxObjects + 1)
SessIds == 1..(MaxObjects + 1)
CloseIds == 1..(MaxObjects + 1)
Pairs == CoreIds \X SessIds

\* the calls counted against limit
Objects == Len(hs) + Len(ss) + Len(closes)

Handles == 1..Len(hs)
Sessions == 1..Len(ss)
Range(f) == {f[x] : x \in DOMAIN f}
Active == Range(replicationStreams)

\* constructor, over a storage that holds the logs stored (root -> public key)
Constructor(stored) ==
  /\ hs = <<>>
  /\ storage = stored
  /\ cores = <<>>
  /\ replicationStreams = <<>>
  /\ defaultCore = NoCore
  /\ ss = <<>>
  /\ pend = [p \in Pairs |-> 0]
  /\ libPend = {}
  /\ instructed = [p \in Pairs |-> 0]
  /\ closes = <<>>
  /\ closeCbs = [p \in CloseIds \X CoreIds |-> 0]
  /\ threw = NoThrow

\* a store constructed over an empty storage
Init == Constructor(<<>>) /\ limit = MaxObjects

\* ------------------------------------------------------------------ get
\* public keys no handle, request or stored log has shown yet: what
\* crypto.keyPair() may draw
SeenKeys ==
  {hs[h].key : h \in Handles} \cup Range(storage)
  \cup {k \in Keys : \E h \in Handles : hs[h].idx = encode(discoveryKey(k))}
UnseenKeys == Keys \ SeenKeys
\* Unseen keys occur nowhere in the state, so they are interchangeable: the
\* draw is represented by the least of them.
FreshKey == IF UnseenKeys = {} THEN NoKey
            ELSE CHOOSE k \in UnseenKeys : \A j \in UnseenKeys : k <= j

\* injectIntoReplicationStreams reaching the first active stream only
injectIntoReplicationStreams_First(p, core) ==
  [x \in Pairs |->
     IF x[1] = core /\ replicationStreams # <<>> /\ x[2] = replicationStreams[1]
     THEN p[x] + 1 ELSE p[x]]

\* get(): injectIntoReplicationStreams(core) queues one core.ready callback
\* per active stream (_replicateCore)
injectIntoReplicationStreams(p, core) ==
  [x \in Pairs |-> IF x[1] = core /\ x[2] \in Active THEN p[x] + 1 ELSE p[x]]

GetIdx(coreOpts, fresh) == IdxString(_optsToIndex(coreOpts, fresh).idx)
GetExisting(coreOpts, fresh) ==
  IF GetIdx(coreOpts, fresh) \in DOMAIN cores THEN cores[GetIdx(coreOpts, fresh)] ELSE NoCore

\* the handle get() returns
GetReturn(coreOpts, fresh) ==
  IF GetExisting(coreOpts, fresh) # NoCore THEN GetExisting(coreOpts, fresh)
  ELSE Len(hs) + 1

\* the hypercore() call of get()
NewCore(coreOpts, fresh) ==
  [state |-> "Pending",
   key   |-> _optsToIndex(coreOpts, fresh).key,
   idx   |-> GetIdx(coreOpts, fresh),
   root  |-> StorageRoot(GetIdx(coreOpts, fresh), coreOpts),
   disc  |-> Truthy(coreOpts.discoveryKey)]

\* get() creating the log whatever the request
CreateIfMissing_Always(h) == TRUE

\* get(): createIfMissing: !coreOpts.discoveryKey
CreateIfMissing(h) == ~hs[h].disc

\* Corestore.get, without its return value
GetBody(coreOpts, fresh) ==
  /\ _optsToIndex(coreOpts, fresh).generated => fresh # NoKey
  /\ IF GetExisting(coreOpts, fresh) # NoCore
     THEN /\ \A s \in Active : pend[<<GetExisting(coreOpts, fresh), s>>] < MaxPending
          /\ pend' = injectIntoReplicationStreams(pend, GetExisting(coreOpts, fresh))
          /\ hs' = hs
     ELSE /\ Objects < limit
          /\ hs' = Append(hs, NewCore(coreOpts, fresh))
          /\ pend' = pend

Get(coreOpts, fresh) ==
  /\ GetBody(coreOpts, fresh)
  /\ threw' = NoThrow
  /\ UNCHANGED <<storage, cores, replicationStreams, defaultCore, ss, libPend,
                 instructed, closes, closeCbs, limit>>

\* default() looking at its options whether or not a default core exists
DefaultIsSet_Never == FALSE

\* default(): if (this.defaultCore) return this.defaultCore
DefaultIsSet == defaultCore # NoCore

\* default(): if (!coreOpts.keyPair && !coreOpts.key) coreOpts.default = true
DefaultSeeking(coreOpts) ==
  IF coreOpts.keyPair = NoKey /\ ~Truthy(coreOpts.key)
  THEN [coreOpts EXCEPT !.default = TRUE] ELSE coreOpts

\* the handle default() returns
DefaultReturn(coreOpts, fresh) ==
  IF DefaultIsSet THEN defaultCore ELSE GetReturn(DefaultSeeking(coreOpts), fresh)

\* Corestore.default
Default(coreOpts, fresh) ==
  /\ IF DefaultIsSet
     THEN /\ threw' = NoThrow
          /\ UNCHANGED <<hs, pend, defaultCore>>
     ELSE /\ GetBody(DefaultSeeking(coreOpts), fresh)
          /\ defaultCore' = DefaultReturn(coreOpts, fresh)
          /\ threw' = NoThrow
  /\ UNCHANGED <<storage, cores, replicationStreams, ss, libPend, instructed,
                 closes, closeCbs, limit>>

\* getInfo(): replicationId: this.defaultCore.id reads a property of null
\* when there is no default core, which is a TypeError
GetInfoThrows == defaultCore = NoCore

\* Corestore.getInfo: it writes nothing
GetInfo ==
  /\ threw' = IF GetInfoThrows THEN "getInfo" ELSE NoThrow
  /\ UNCHANGED <<hs, storage, cores, replicationStreams, defaultCore, ss, pend, libPend,
                 instructed, closes, closeCbs, limit>>

\* ------------------------------------------------- readiness of a core
\* the key hypercore resolves on open: the one given, else the one on disk,
\* else a fresh one
ResolvedKey(h, fresh) ==
  IF hs[h].key # NoKey THEN hs[h].key
  ELSE IF hs[h].root \in DOMAIN storage THEN storage[hs[h].root]
  ELSE fresh

MapSet(m, k, v) == [x \in DOMAIN m \cup {k} |-> IF x = k THEN v ELSE m[x]]

\* get(): the 'ready' listener: the handle is registered under both keys
Register(m, h, key) ==
  MapSet(MapSet(m, encode(key), h), encode(discoveryKey(key)), h)

\* get(): the 'ready' listener: this.emit('feed', core, coreOpts) comes before
\* the two cores.set calls, so a listener of 'feed' looks the core's key up in
\* the registry as it was before the core opened.  ObserverOpts is the
\* request of a listener that calls get({key: core.key}).
RegistryAtEmit == cores
ObserverOpts(key) == [EmptyOpts EXCEPT !.key = Buf(key)]
ObserverExisting(key) ==
  IF GetIdx(ObserverOpts(key), NoKey) \in DOMAIN RegistryAtEmit
  THEN RegistryAtEmit[GetIdx(ObserverOpts(key), NoKey)] ELSE NoCore
\* the handle that get() returns to the listener
ObserverReturn(key) ==
  IF ObserverExisting(key) # NoCore THEN ObserverExisting(key) ELSE Len(hs) + 1

\* hypercore opens the log (createIfMissing, or the log is on disk) and emits
\* 'ready'; the listener of get() runs: it emits 'feed', registers the core
\* and queues its attachment.  observes: a listener of 'feed' calls
\* get({key: core.key}).
CoreReady(h, fresh, observes) ==
  /\ h \in Handles
  /\ hs[h].state = "Pending"
  /\ CreateIfMissing(h) \/ hs[h].root \in DOMAIN storage
  /\ (hs[h].key = NoKey /\ hs[h].root \notin DOMAIN storage) => fresh # NoKey
  /\ LET key == ResolvedKey(h, fresh)
         opened == [hs EXCEPT ![h].state = "Ready", ![h].key = key]
         found == ObserverExisting(key)
     IN /\ IF ~observes
           THEN hs' = opened /\ pend' = injectIntoReplicationStreams(pend, h)
           ELSE IF found # NoCore
           THEN /\ \A s \in Active : pend[<<found, s>>] < MaxPending
                /\ hs' = opened
                /\ pend' = injectIntoReplicationStreams(
                             injectIntoReplicationStreams(pend, found), h)
           ELSE /\ Objects < limit
                /\ hs' = Append(opened, NewCore(ObserverOpts(key), NoKey))
                /\ pend' = injectIntoReplicationStreams(pend, h)
        /\ storage' = IF hs[h].root \in DOMAIN storage THEN storage
                      ELSE MapSet(storage, hs[h].root, key)
        /\ cores' = Register(cores, h, key)
  /\ threw' = NoThrow
  /\ UNCHANGED <<replicationStreams, defaultCore, ss, libPend, instructed, closes,
                 closeCbs, limit>>

\* a discovery-only open finds no log on disk: 'error' is emitted, the
\* errorListener of get() sets errored, 'ready' never fires
CoreError(h) ==
  /\ h \in Handles
  /\ hs[h].state = "Pending"
  /\ ~CreateIfMissing(h)
  /\ hs[h].root \notin DOMAIN storage
  /\ hs' = [hs EXCEPT ![h].state = "Errored"]
  /\ threw' = NoThrow
  /\ UNCHANGED <<storage, cores, replicationStreams, defaultCore, ss, pend, libPend,
                 instructed, closes, closeCbs, limit>>

\* ------------------------------------------------------------ replicate
\* the registry keys under which core is registered
KeysOf(core) == {k \in DOMAIN cores : cores[k] = core}

\* replicate(): the stream object it returns.  With a default core the stream
\* comes from defaultCore.replicate(), which adds the core's feed at once when
\* the core is opened and on its readiness otherwise.
NewStream ==
  [closed    |-> FALSE,
   destroys  |-> 0,
   feeds     |-> IF defaultCore # NoCore /\ hs[defaultCore].state \in {"Ready", "Closed"}
                 THEN {defaultCore} ELSE {}]

\* replicate() without its check of the default core
ReplicateThrows_NoCheck(encrypt) == FALSE

\* replicate(): if (!this.defaultCore && replicationOpts.encrypt) throw
ReplicateThrows(encrypt) == defaultCore = NoCore /\ encrypt

\* Corestore.replicate
Replicate(encrypt) ==
  IF ReplicateThrows(encrypt)
  THEN /\ threw' = "replicate"
       /\ UNCHANGED <<hs, storage, cores, replicationStreams, defaultCore, ss, pend,
                      libPend, instructed, closes, closeCbs, limit>>
  ELSE LET s == Len(ss) + 1
       IN /\ Objects < limit
          /\ ss' = Append(ss, NewStream)
          /\ instructed' = IF defaultCore # NoCore
                           THEN [instructed EXCEPT ![<<defaultCore, s>>] = 1]
                           ELSE instructed
          /\ libPend' = IF defaultCore # NoCore /\ hs[defaultCore].state = "Pending"
                        THEN libPend \cup {<<defaultCore, s>>} ELSE libPend
          \* for (let [_, core] of this.cores) this._replicateCore(core, mainStream)
          /\ pend' = [x \in Pairs |->
                        IF x[2] = s THEN Cardinality(KeysOf(x[1])) ELSE pend[x]]
          /\ replicationStreams' = Append(replicationStreams, s)
          /\ threw' = NoThrow
          /\ UNCHANGED <<hs, storage, cores, defaultCore, closes, closeCbs, limit>>

\* stream.destroyed
Destroyed(s) == ss[s].destroys > 0

\* _replicateCore without its loop over mainStream.feeds
AlreadyReplicating_NoLoop(core, s) == FALSE

\* _replicateCore: does the loop over mainStream.feeds find the core
AlreadyReplicating(core, s) == core \in ss[s].feeds

\* _replicateCore: the core.ready callback.  The callbacks of one core run in
\* the order they were queued, so the one defaultCore.replicate() queued on a
\* pending default core runs first.
ReadyCallback(core, s) ==
  /\ core \in Handles /\ s \in Sessions
  /\ pend[<<core, s>>] > 0
  /\ <<core, s>> \notin libPend
  /\ hs[core].state # "Pending"
  /\ pend' = [pend EXCEPT ![<<core, s>>] = @ - 1]
  /\ IF hs[core].state = "Errored" \/ AlreadyReplicating(core, s)
     THEN UNCHANGED <<instructed, ss>>
     ELSE /\ instructed[<<core, s>>] < MaxPending
          /\ instructed' = [instructed EXCEPT ![<<core, s>>] = @ + 1]
          \* core.replicate({stream}): a destroyed stream takes no feed
          /\ ss' = IF Destroyed(s) THEN ss
                   ELSE [ss EXCEPT ![s].feeds = @ \cup {core}]
  /\ threw' = NoThrow
  /\ UNCHANGED <<hs, storage, cores, replicationStreams, defaultCore, libPend, closes,
                 closeCbs, limit>>

\* the readiness callback defaultCore.replicate() queued in replicate()
LibCallback(core, s) ==
  /\ <<core, s>> \in libPend
  /\ hs[core].state # "Pending"
  /\ libPend' = libPend \ {<<core, s>>}
  /\ ss' = IF Destroyed(s) \/ hs[core].state = "Errored" THEN ss
           ELSE [ss EXCEPT ![s].feeds = @ \cup {core}]
  /\ threw' = NoThrow
  /\ UNCHANGED <<hs, storage, cores, replicationStreams, defaultCore, pend, instructed,
                 closes, closeCbs, limit>>

\* Array.prototype.indexOf, -1 becoming 0
IndexOf(seq, x) ==
  IF \E i \in 1..Len(seq) : seq[i] = x
  THEN CHOOSE i \in 1..Len(seq) : seq[i] = x /\ \A j \in 1..(i - 1) : seq[j] # x
  ELSE 0

RemoveAt(seq, i) == SubSeq(seq, 1, i - 1) \o SubSeq(seq, i + 1, Len(seq))

\* replicationStreams.splice(replicationStreams.indexOf(streamState), 1):
\* splice(-1, 1) takes the last element
Splice(seq, x) ==
  IF seq = <<>> THEN seq
  ELSE IF IndexOf(seq, x) = 0 THEN RemoveAt(seq, Len(seq))
  ELSE RemoveAt(seq, IndexOf(seq, x))

\* replicate(): onclose, on the array rs and the stream records st
OnCloseStreams(rs, st, s) == IF st[s].closed THEN rs ELSE Splice(rs, s)
OnCloseFlags(st, s) == [st EXCEPT ![s].closed = TRUE]

\* the stream emits finish, end or close
Signal(s, sig) ==
  /\ s \in Sessions
  /\ replicationStreams' = OnCloseStreams(replicationStreams, ss, s)
  /\ ss' = OnCloseFlags(ss, s)
  /\ threw' = NoThrow
  /\ UNCHANGED <<hs, storage, cores, defaultCore, pend, libPend, instructed, closes,
                 closeCbs, limit>>

\* replicate(): mainStream.on('feed'): a remote peer announces dkey
Feed(s, dkey) ==
  /\ s \in Sessions
  /\ ~Destroyed(s)
  /\ GetBody([EmptyOpts EXCEPT !.discoveryKey = Buf(dkey)], NoKey)
  /\ threw' = NoThrow
  /\ UNCHANGED <<storage, cores, replicationStreams, defaultCore, ss, libPend,
                 instructed, closes, closeCbs, limit>>

\* ---------------------------------------------------------------- close
\* close(): for (let { stream } of this.replicationStreams) stream.destroy()
\* The array iterator reads the live array at position i.  sync is the set of
\* streams whose destroy() emits 'close' before it returns.
RECURSIVE DestroyLoop(_, _, _, _)
DestroyLoop(i, rs, st, sync) ==
  IF i > Len(rs) THEN [rs |-> rs, st |-> st]
  ELSE LET s  == rs[i]
           d  == [st EXCEPT ![s].destroys = @ + 1]
       IN IF s \in sync
          THEN DestroyLoop(i + 1, OnCloseStreams(rs, d, s), OnCloseFlags(d, s), sync)
          ELSE DestroyLoop(i + 1, rs, d, sync)

\* Corestore.close up to its return: remaining, the destroy loop, and one
\* core.close(onclose) per registry entry whose core is not closed
Close(sync) ==
  /\ Objects < limit
  /\ sync \subseteq Active
  /\ LET r == DestroyLoop(1, replicationStreams, ss, sync)
         id == Len(closes) + 1
     IN /\ replicationStreams' = r.rs
        /\ ss' = r.st
        /\ closes' = Append(closes, [remaining |-> Cardinality(DOMAIN cores),
                                   cbCalls |-> 0, cbFirst |-> NoCore,
                                   cbHandles |-> 0])
        /\ closeCbs' = [x \in CloseIds \X CoreIds |->
                          IF x[1] = id /\ x[2] \in Handles /\ hs[x[2]].state # "Closed"
                          THEN Cardinality(KeysOf(x[2])) ELSE closeCbs[x]]
  /\ threw' = NoThrow
  /\ UNCHANGED <<hs, storage, cores, defaultCore, pend, libPend, instructed, limit>>

\* reset() leaving the streams in place
ResetStreams_Kept == replicationStreams

\* close(): reset: self.cores = new Map(), self.replicationStreams = []
ResetCores == <<>>
ResetStreams == <<>>

\* close(): onclose: does this call of it end in reset()
OnCloseResets(id, err) == err \/ closes[id].remaining - 1 = 0

\* a core.close(onclose) of close call id is answered, with or without an
\* error: close(): onclose, reset
CoreCloseDone(id, core, err) ==
  /\ id \in 1..Len(closes) /\ core \in Handles
  /\ closeCbs[<<id, core>>] > 0
  /\ closeCbs' = [closeCbs EXCEPT ![<<id, core>>] = @ - 1]
  /\ hs' = [hs EXCEPT ![core].state = "Closed"]
  /\ IF OnCloseResets(id, err)
     THEN /\ cores' = ResetCores
          /\ replicationStreams' = ResetStreams
          /\ closes' = [closes EXCEPT
                          ![id].remaining = IF err THEN @ ELSE @ - 1,
                          ![id].cbCalls = @ + 1,
                          ![id].cbFirst = IF closes[id].cbCalls > 0 THEN @
                                          ELSE IF err THEN core ELSE NoCore,
                          ![id].cbHandles = IF closes[id].cbCalls > 0 THEN @
                                            ELSE Len(hs)]
     ELSE /\ closes' = [closes EXCEPT ![id].remaining = @ - 1]
          /\ UNCHANGED <<cores, replicationStreams>>
  /\ threw' = NoThrow
  /\ UNCHANGED <<storage, defaultCore, ss, pend, libPend, instructed, limit>>

\* ------------------------------------------------------- specification
Next ==
  \/ \E o \in GetOpts : Get(o, FreshKey)
  \/ \E o \in DefaultOpts : Default(o, FreshKey)
  \/ GetInfo
  \/ \E h \in CoreIds, observes \in BOOLEAN : CoreReady(h, FreshKey, observes)
  \/ \E h \in CoreIds : CoreError(h)
  \/ \E e \in BOOLEAN : Replicate(e)
  \/ \E c \in CoreIds, s \in SessIds : ReadyCallback(c, s)
  \/ \E c \in CoreIds, s \in SessIds : LibCallback(c, s)
  \/ \E s \in SessIds, sig \in Signals : Signal(s, sig)
  \/ \E s \in SessIds, k \in Keys : Feed(s, discoveryKey(k))
  \/ \E sync \in SUBSET SessIds : Close(sync)
  \/ \E id \in CloseIds, c \in CoreIds, e \in BOOLEAN : CoreCloseDone(id, c, e)

Spec == Init /\ [][Next]_vars

\* ------------------------------------------------ a run of one more call
\* The same store with room for one call more, used by key only and without
\* a default core: a core, a stream, a close() and a stream opened after it.
InitWide == Constructor(<<>>) /\ limit = MaxObjects + 1

NextWide ==
  \/ \E k \in Keys : Get([EmptyOpts EXCEPT !.key = Buf(k)], FreshKey)
  \/ \E h \in CoreIds, observes \in BOOLEAN : CoreReady(h, FreshKey, observes)
  \/ Replicate(FALSE)
  \/ \E c \in CoreIds, s \in SessIds : ReadyCallback(c, s)
  \/ \E s \in SessIds, sig \in Signals : Signal(s, sig)
  \/ \E sync \in SUBSET SessIds : Close(sync)
  \/ \E id \in CloseIds, c \in CoreIds, e \in BOOLEAN : CoreCloseDone(id, c, e)

SpecWide == InitWide /\ [][NextWide]_vars

\* --------------------------------------- a store over an earlier run's logs
\* The storage an earlier run of the store left: one log, written by
\* get({key}) under the sharded root of its discovery key, or by get({name})
\* under its name.
FirstKey == CHOOSE k \in Keys : \A j \in Keys : k <= j
StoredLogs ==
  {MapSet(<<>>, StorageRoot(encode(discoveryKey(FirstKey)), EmptyOpts), FirstKey)}
  \cup {MapSet(<<>>, n, FirstKey) : n \in Names}

InitStored == (\E stored \in StoredLogs : Constructor(stored)) /\ limit = MaxObjects

\* the caller asks by name and by key; discovery keys come from peers alone
NextStored ==
  \/ \E o \in {x \in GetOpts : ~Truthy(x.discoveryKey)} : Get(o, FreshKey)
  \/ \E o \in DefaultOpts : Default(o, FreshKey)
  \/ \E h \in CoreIds, observes \in BOOLEAN : CoreReady(h, FreshKey, observes)
  \/ \E h \in CoreIds : CoreError(h)
  \/ \E e \in BOOLEAN : Replicate(e)
  \/ \E c \in CoreIds, s \in SessIds : ReadyCallback(c, s)
  \/ \E c \in CoreIds, s \in SessIds : LibCallback(c, s)
  \/ \E s \in SessIds, sig \in Signals : Signal(s, sig)
  \/ \E s \in SessIds, k \in Keys : Feed(s, discoveryKey(k))
  \/ \E sync \in SUBSET SessIds : Close(sync)
  \/ \E id \in CloseIds, c \in CoreIds, e \in BOOLEAN : CoreCloseDone(id, c, e)

\* core.ready(cb) calls cb once the core has opened or failed to open: a
\* queued callback that can run does run
SpecStored ==
  /\ InitStored
  /\ [][NextStored]_vars
  /\ \A c \in CoreIds, s \in SessIds : WF_vars(ReadyCallback(c, s))

\* ------------------------------------------- get() over all its options
\* every combination of the options _optsToIndex and get() read
AllOpts ==
  {Opts(d, nm, k, dk, kp, sk) :
     d \in BOOLEAN, nm \in {<<>>} \cup Names,
     k \in {None} \cup {Buf(x) : x \in Keys} \cup {Str(encode(x)) : x \in Keys},
     dk \in {None} \cup {Buf(discoveryKey(x)) : x \in Keys}
            \cup {Str(encode(discoveryKey(x))) : x \in Keys},
     kp \in {NoKey} \cup Keys, sk \in BOOLEAN}

\* a store on which get() is called, one call fewer than in Spec
InitRoots == Constructor(<<>>) /\ limit = MaxObjects - 1

NextRoots == \E o \in AllOpts : Get(o, FreshKey)

SpecRoots == InitRoots /\ [][NextRoots]_vars

\* ------------------------------------------ callers that write to results
\* A mapping handed to a caller is the registry itself or a new map that held
\* the registry's entries when it was made.
\* list(): return new Map([...this.cores])
ListResult == "copy"
\* getInfo(): cores: this.cores
InfoCoresResult == "registry"

\* list(): the entries of the mapping it returns
List == cores

MapDelete(m, k) == [x \in DOMAIN m \ {k} |-> m[x]]

\* the registry after a caller has replaced the entries of a result by m
WrittenThrough(result, m) == IF result = "registry" THEN m ELSE cores

\* a caller calls list() and deletes key k from, or sets key k to handle h in,
\* the mapping it got
ListThenDelete(k) ==
  /\ k \in DOMAIN List
  /\ cores' = WrittenThrough(ListResult, MapDelete(List, k))
  /\ threw' = NoThrow
  /\ UNCHANGED <<hs, storage, replicationStreams, defaultCore, ss, pend, libPend,
                 instructed, closes, closeCbs, limit>>

ListThenSet(k, h) ==
  /\ h \in Handles
  /\ cores' = WrittenThrough(ListResult, MapSet(List, k, h))
  /\ threw' = NoThrow
  /\ UNCHANGED <<hs, storage, replicationStreams, defaultCore, ss, pend, libPend,
                 instructed, closes, closeCbs, limit>>

\* a caller calls getInfo(), which returns, and deletes key k from, or sets
\* key k to handle h in, the cores mapping of the result
InfoThenDelete(k) ==
  /\ ~GetInfoThrows
  /\ k \in DOMAIN cores
  /\ cores' = WrittenThrough(InfoCoresResult, MapDelete(cores, k))
  /\ threw' = NoThrow
  /\ UNCHANGED <<hs, storage, replicationStreams, defaultCore, ss, pend, libPend,
                 instructed, closes, closeCbs, limit>>

InfoThenSet(k, h) ==
  /\ ~GetInfoThrows
  /\ h \in Handles
  /\ cores' = WrittenThrough(InfoCoresResult, MapSet(cores, k, h))
  /\ threw' = NoThrow
  /\ UNCHANGED <<hs, storage, replicationStreams, defaultCore, ss, pend, libPend,
                 instructed, closes, closeCbs, limit>>

\* the key such a caller writes: the hex text of the first public key
CallerKeys == {encode(CHOOSE k \in Keys : \A j \in Keys : k <= j)}

NextCaller ==
  \/ Next
  \/ \E k \in CallerKeys : ListThenDelete(k)
  \/ \E k \in CallerKeys, h \in CoreIds : ListThenSet(k, h)
  \/ \E k \in CallerKeys : InfoThenDelete(k)
  \/ \E k \in CallerKeys, h \in CoreIds : InfoThenSet(k, h)

SpecCaller == Init /\ [][NextCaller]_vars

\* ----------------------------------------------------------- properties
CloseCalls == 1..Len(closes)
Reported(id) == closes[id].cbCalls > 0
Answered(id) == \A c \in CoreIds : closeCbs[<<id, c>>] = 0
Live(h) == hs[h].state # "Errored"

\* C1: requests that resolve to the same index share one handle: before any
\* close(), no two handles that opened were created for the same index
\* string.
C1_OneHandlePerIndex ==
  closes = <<>> =>
    \A h1, h2 \in Handles :
      (hs[h1].idx = hs[h2].idx /\ Live(h1) /\ Live(h2)) => h1 = h2

\* C2: for every core and every stream that has not been destroyed,
\* core.replicate() has been called with that stream at most once.
C2_AtMostOneReplicate ==
  \A c \in Handles, s \in Sessions : ~Destroyed(s) => instructed[<<c, s>>] <= 1

\* a core other than the default one is attached to a live stream and two
\* more callbacks for the same pair are queued
C2_Witness ==
  \E c \in Handles, s \in Sessions :
    /\ c # defaultCore /\ ~Destroyed(s)
    /\ c \in ss[s].feeds /\ instructed[<<c, s>>] = 1 /\ pend[<<c, s>>] > 1

\* C3: every Ready core ends up attached to every stream that stays active:
\* once no callback of the pair is left to run, the core is among the
\* stream's feeds.
C3_ReadyCoresAttached ==
  \A c \in Handles, s \in Active :
    ( /\ hs[c].state = "Ready"
      /\ ~Destroyed(s) /\ ~ss[s].closed
      /\ pend[<<c, s>>] = 0 /\ <<c, s>> \notin libPend )
    => c \in ss[s].feeds

\* C4: close() reports completion exactly once: when every core.close() it
\* issued has been answered, cb has been called once.
C4_CloseReportsOnce ==
  \A id \in CloseCalls : Answered(id) => closes[id].cbCalls = 1

\* C5: when close() reports the error of one core, the closures of all the
\* other cores have completed.
C5_ReportAfterAllClosed ==
  \A id \in CloseCalls :
    (Reported(id) /\ closes[id].cbFirst # NoCore) =>
      \A c \in Handles \ {closes[id].cbFirst} : closeCbs[<<id, c>>] = 0

\* C6: close() calls destroy() once on every stream that is active when it
\* is called, whichever of them emit 'close' during the call.
C6_EveryStreamDestroyed ==
  [][ (\E sync \in SUBSET SessIds : Close(sync))
        => \A s \in Active : ss'[s].destroys = ss[s].destroys + 1 ]_vars

\* C7 (as stated, in the case without a close error): after close() has
\* reported null, the registry holds only cores that a later get() or
\* default() created.
C7_EmptyUntilNextGet ==
  \A id \in CloseCalls :
    (Reported(id) /\ closes[id].cbFirst = NoCore) =>
      \A k \in DOMAIN cores : cores[k] > closes[id].cbHandles

\* C7 (amended): at every call of cb the registry and the stream set are
\* empty, and an empty registry stays empty until a core's first readiness.
C7_ResetOnReport ==
  [][ /\ (\E id \in CloseCalls : closes'[id].cbCalls > closes[id].cbCalls)
           => (DOMAIN cores' = {} /\ replicationStreams' = <<>>)
      /\ (DOMAIN cores = {} /\ DOMAIN cores' # {})
           => \E h \in Handles : hs[h].state = "Pending" /\ hs'[h].state = "Ready" ]_vars

\* close() has reported a core's error while a stream that never signalled
\* its end had been active, and both collections are empty
C7_Witness ==
  \E id \in CloseCalls, s \in Sessions :
    /\ closes[id].cbCalls = 1 /\ closes[id].cbFirst # NoCore
    /\ ~ss[s].closed
    /\ DOMAIN cores = {} /\ replicationStreams = <<>>

\* C8: once close() has reported (here: without an error), the handle
\* default() returns and every handle get() finds in the registry is not
\* Closed.
C8_ReusableAfterClose ==
  (\E id \in CloseCalls : Reported(id) /\ closes[id].cbFirst = NoCore) =>
    /\ defaultCore # NoCore => hs[defaultCore].state # "Closed"
    /\ \A o \in GetOpts :
         GetExisting(o, FreshKey) # NoCore => hs[GetExisting(o, FreshKey)].state # "Closed"

\* C9: replicate({encrypt: true}) throws and changes nothing while there is
\* no default core; once default() has been called there is a default core
\* for good, and the same call returns a new stream that is in the active
\* set.
C9_EncryptNeedsDefault ==
  [][ /\ (Replicate(TRUE) /\ defaultCore = NoCore)
           => (threw' = "replicate" /\ ss' = ss
               /\ replicationStreams' = replicationStreams)
      /\ (Replicate(TRUE) /\ defaultCore # NoCore)
           => (threw' = NoThrow /\ Len(ss') = Len(ss) + 1
               /\ Len(ss') \in Range(replicationStreams'))
      /\ (\E o \in DefaultOpts : Default(o, FreshKey)) => defaultCore' # NoCore
      /\ (defaultCore # NoCore => defaultCore' = defaultCore) ]_vars

\* replicate({encrypt: true}) has just thrown
C9_Witness == threw = "replicate" /\ defaultCore = NoCore

\* the log a discovery-only handle asks for is not on disk
Absent(h) == hs[h].disc /\ hs[h].root \notin DOMAIN storage

C10_ErroredApart ==
  \A h \in Handles :
    hs[h].state = "Errored" =>
      /\ h \notin Range(cores)
      /\ \A s \in Sessions :
           h \notin ss[s].feeds /\ instructed[<<h, s>>] = 0 /\ pend[<<h, s>>] = 0

\* C10: get({discoveryKey}) does not throw; a discovery-only handle whose log
\* is absent can only become Errored, an Errored handle stays Errored, and it
\* is in no registry entry and no stream.
C10_DiscoveryMiss ==
  /\ []C10_ErroredApart
  /\ [][ /\ (\E k \in Keys :
               Get([EmptyOpts EXCEPT !.discoveryKey = Buf(discoveryKey(k))], FreshKey))
             => threw' = NoThrow
         /\ \A h \in Handles :
              /\ (hs[h].state = "Pending" /\ Absent(h))
                   => hs'[h].state \in {"Pending", "Errored"}
              /\ hs[h].state = "Errored" => hs'[h].state = "Errored" ]_vars

\* a discovery-only handle has Errored while a stream is active and the
\* registry lists another core
C10_Witness ==
  \E h \in Handles, s \in Active :
    /\ hs[h].state = "Errored" /\ ~Destroyed(s)
    /\ DOMAIN cores # {}

\* C11: getInfo() called while there is no default core does not fault and
\* changes no state of the store.
C11_GetInfoGraceful ==
  [][ (GetInfo /\ defaultCore = NoCore)
        => (threw' = NoThrow /\ hs' = hs /\ cores' = cores
            /\ replicationStreams' = replicationStreams /\ defaultCore' = defaultCore) ]_vars

\* whatever its options, default() returns the default core once there is one
C12_ReturnsTheDefault ==
  defaultCore # NoCore =>
    \A o \in DefaultOpts : DefaultReturn(o, FreshKey) = defaultCore

\* C12: default() is idempotent: once a default core exists, every default()
\* call returns that handle whatever its options, creates no handle, queues
\* nothing and leaves the registry and the default core as they are.
C12_DefaultIdempotent ==
  /\ []C12_ReturnsTheDefault
  /\ [][ \A o \in DefaultOpts :
           (Default(o, FreshKey) /\ defaultCore # NoCore)
             => (hs' = hs /\ cores' = cores /\ pend' = pend
                 /\ defaultCore' = defaultCore) ]_vars

\* a default core exists, and default() may be called with a key that the
\* registry resolves to another handle
C12_Witness ==
  /\ defaultCore # NoCore
  /\ \E o \in DefaultOpts :
       GetExisting(o, FreshKey) # NoCore /\ GetExisting(o, FreshKey) # defaultCore

\* C13: no accessor hands out the live registry: a caller that writes to the
\* mapping list() returned, or to the cores mapping getInfo() returned,
\* changes neither what list() returns nor the handle get() finds.
C13_NoLiveRegistry ==
  [][ ( \/ \E k \in CallerKeys : ListThenDelete(k) \/ InfoThenDelete(k)
        \/ \E k \in CallerKeys, h \in CoreIds : ListThenSet(k, h) \/ InfoThenSet(k, h) )
        => ( /\ List' = List
             /\ \A o \in GetOpts : GetExisting(o, FreshKey)' = GetExisting(o, FreshKey) ) ]_vars

\* C14: every Ready handle is registered under exactly two keys, the hex
\* text of its public key and the hex text of its discovery key, and both
\* resolve to it.
C14_ReadyRegisteredTwice ==
  \A h \in Handles :
    hs[h].state = "Ready" =>
      KeysOf(h) = {encode(hs[h].key), encode(discoveryKey(hs[h].key))}

\* C15: whenever a stream emits finish, end or close, the active set loses
\* that stream if it holds it and nothing else: the first signal of a stream
\* removes it, and no signal removes another stream.
C15_SignalRemovesOnlyItself ==
  [][ \A s \in SessIds, sig \in Signals :
        Signal(s, sig) => Range(replicationStreams') = Active \ {s} ]_vars

\* a Ready, registered discovery-only core is attached to each live stream
\* of the active set or has a callback queued that will attach it
C16_QueuedOrAttached ==
  \A c \in Handles, s \in Active :
    ( /\ hs[c].disc /\ hs[c].state = "Ready" /\ c \in Range(cores)
      /\ ~Destroyed(s) /\ pend[<<c, s>>] = 0 )
    => c \in ss[s].feeds

\* C16: a discovery key that a peer announces on a stream and the registry
\* does not hold is opened discovery-only without a throw, and a
\* discovery-only core that is Ready and registered is in the end attached
\* to every stream of the active set, as long as the stream stays in the set
\* and is not destroyed.
C16_AnnouncedCoreAttached ==
  /\ []C16_QueuedOrAttached
  /\ [][ \A s \in SessIds, k \in Keys :
           ( /\ Feed(s, discoveryKey(k))
             /\ encode(discoveryKey(k)) \notin DOMAIN cores )
           => ( /\ threw' = NoThrow
                /\ Len(hs') = Len(hs) + 1
                /\ hs'[Len(hs')].disc /\ hs'[Len(hs')].idx = encode(discoveryKey(k))
                /\ hs'[Len(hs')].state = "Pending" ) ]_vars
  /\ \A c \in CoreIds, s \in SessIds :
       ( /\ c \in Handles /\ s \in Active
         /\ hs[c].disc /\ hs[c].state = "Ready" /\ c \in Range(cores) )
       ~> ( s \notin Active \/ Destroyed(s) \/ c \in ss[s].feeds )

\* the log of an announced discovery key was in storage and not in the
\* registry; the core opened for it is Ready and attached to two active
\* streams
C16_Witness ==
  \E c \in Handles, s1, s2 \in Active :
    /\ s1 # s2
    /\ hs[c].disc /\ hs[c].state = "Ready"
    /\ c \in ss[s1].feeds /\ c \in ss[s2].feeds

\* C17: core.replicate() is called with a stream only for a core that has
\* opened: no core that is still Pending has been handed to a stream, the
\* default core included.
C17_ReplicateAfterReady ==
  \A c \in Handles, s \in Sessions :
    instructed[<<c, s>>] > 0 => hs[c].state # "Pending"

\* C18: when the creation notification of a core is delivered, the core is
\* registered already: a listener that calls get() with the core's key gets
\* that core, and no handle is created.
C18_RegisteredWhenNotified ==
  [][ \A h \in CoreIds :
        CoreReady(h, FreshKey, TRUE)
          => ( /\ ObserverReturn(ResolvedKey(h, FreshKey)) = h
               /\ Len(hs') = Len(hs) ) ]_vars

\* the root the index alone determines: a marker or a name is its own root,
\* a discovery key has the sharded path of its hex text
RootOfIndex(idx) ==
  IF idx.t = "str" THEN idx.v
  ELSE SubSeq(encode(idx.v), 1, 2) \o <<"/">> \o SubSeq(encode(idx.v), 3, 4)
       \o <<"/">> \o encode(idx.v)

\* C19: for every combination of options, the storage root of the handle
\* get() creates is the root that its resolved index determines.
C19_RootFromIndex ==
  [][ \A o \in AllOpts :
        (Get(o, FreshKey) /\ Len(hs') = Len(hs) + 1)
          => hs'[Len(hs')].root = RootOfIndex(_optsToIndex(o, FreshKey).idx) ]_vars

\* C20: a stream takes a new feed only while it is in the active set: no
\* core is attached to a stream that a signal or close() has removed.
C20_AttachOnlyWhileActive ==
  [][ \A c \in CoreIds, s \in Sessions :
        (c \notin ss[s].feeds /\ c \in ss'[s].feeds) => s \in Active ]_vars

====
